---------------------------- MODULE Spec2Model ----------------------------
(***************************************************************************)
(* Model of pymatgen/entries/compatibility.py: the Correction classes      *)
(* (PotcarCorrection, GasCorrection, AqueousCorrection, UCorrection) and   *)
(* the Compatibility aggregator (get_corrections_dict, process_entry,      *)
(* process_entries).                                                       *)
(*                                                                         *)
(* Energies are integers in units of 0.005 eV, U values in units of        *)
(* 0.1 eV, electronegativities in units of 0.01.  A Python dict is a TLA+  *)
(* function whose DOMAIN is the set of keys; an exception is a result      *)
(* record whose status names the exception class.  Every entry is a        *)
(* calculation on at least one atom: its composition holds an element in   *)
(* positive amount (it may also hold elements in amount 0).                *)
(***************************************************************************)
EXTENDS Integers, Sequences, FiniteSets, TLC

VARIABLES corrections, entries, ret

vars == <<corrections, entries, ret>>

(***************************************************************************)
(* Bounds of the model.                                                    *)
(***************************************************************************)
MaxAmount == 2      \* largest amount of one element in a drawn composition
MaxBatch == 2       \* longest sequence handed to process_entries
MaxCorr == 2        \* longest freely drawn list of corrections
MaxSymbols == 2     \* longest drawn list of potcar symbols

(***************************************************************************)
(* Generic helpers: dict.get, sum, min, gcd.                               *)
(***************************************************************************)
EmptyDict == [k \in {} |-> 0]

Get(d, k, default) == IF k \in DOMAIN d THEN d[k] ELSE default

Min(a, b) == IF a <= b THEN a ELSE b

RECURSIVE Gcd(_, _)
Gcd(a, b) == IF b = 0 THEN a ELSE Gcd(b, a % b)

RECURSIVE SumValues(_)
SumValues(d) ==
    IF DOMAIN d = {} THEN 0
    ELSE LET k == CHOOSE x \in DOMAIN d : TRUE
         IN d[k] + SumValues([x \in DOMAIN d \ {k} |-> d[x]])

RECURSIVE SeqsUpTo(_, _)
SeqsUpTo(S, n) ==
    IF n = 0 THEN {<<>>}
    ELSE LET shorter == SeqsUpTo(S, n - 1)
         IN shorter \cup {Append(s, x) : s \in {t \in shorter : Len(t) = n - 1}, x \in S}

Ok(v) == [status |-> "ok", val |-> v]
Raise(exc) == [status |-> exc, val |-> 0]

(***************************************************************************)
(* Element and Composition (pymatgen.core), as far as the corrections use  *)
(* them.  A composition maps the elements it holds to their amounts.       *)
(***************************************************************************)
ElementsByX == <<"Li", "Fe", "H", "O">>

Elements == {ElementsByX[i] : i \in DOMAIN ElementsByX}

X == [Li |-> 98, Fe |-> 183, H |-> 220, O |-> 344]

Amt(comp, el) == Get(comp, el, 0)

num_atoms(comp) == SumValues(comp)

RECURSIVE GcdOfAmounts(_, _)
GcdOfAmounts(comp, els) ==
    IF els = {} THEN 0
    ELSE LET el == CHOOSE x \in els : TRUE
         IN Gcd(comp[el], GcdOfAmounts(comp, els \ {el}))

RECURSIVE FormulaString(_, _)
FormulaString(amounts, i) ==
    IF i > Len(ElementsByX) THEN ""
    ELSE LET el == ElementsByX[i]
             n == Amt(amounts, el)
             part == IF n = 0 THEN ""
                     ELSE IF n = 1 THEN el
                     ELSE el \o ToString(n)
         IN part \o FormulaString(amounts, i + 1)

SpecialFormulas == [LiO |-> "Li2O2", HO |-> "H2O2", O |-> "O2", H |-> "H2"]

reduced_formula(comp) ==
    LET g == GcdOfAmounts(comp, DOMAIN comp)
        reduced == IF g = 0 THEN comp ELSE [el \in DOMAIN comp |-> comp[el] \div g]
        f == FormulaString(reduced, 1)
    IN Get(SpecialFormulas, f, f)

(***************************************************************************)
(* The input set (pymatgen.io.vaspio_set) and the yaml configuration file. *)
(***************************************************************************)
MPVaspInputSet ==
    [name |-> "MP",
     potcar_settings |-> [Li |-> "Li_sv", Fe |-> "Fe_pv", H |-> "H", O |-> "O"],
     incar_settings |-> [LDAUU |-> [O |-> [Fe |-> 53]]]]

ConfigFile ==
    [Name |-> "MP",
     Advanced |-> [CompoundEnergies |-> [H2 |-> -7, O2 |-> -9],
                   UCorrections |-> [O |-> [Fe |-> -5]]],
     OxideCorrections |-> [oxide |-> -2, peroxide |-> -3, superoxide |-> -4,
                           ozonide |-> -1],
     AqueousCompoundEnergies |-> [H2 |-> -6, H2O |-> -8, O2 |-> -10]]

ConfigFileHydroxide ==
    [Name |-> "MPh",
     Advanced |-> ConfigFile.Advanced,
     OxideCorrections |-> [oxide |-> -2, peroxide |-> -3, superoxide |-> -4,
                           ozonide |-> -1, hydroxide |-> -6],
     AqueousCompoundEnergies |-> ConfigFile.AqueousCompoundEnergies]

(***************************************************************************)
(* PotcarCorrection.  A potcar symbol such as "PAW_PBE Fe_pv 06Sep2000" is *)
(* kept as its sequence of space-separated words, so split(" ")[1] is the  *)
(* second word.                                                            *)
(***************************************************************************)
Values(d) == {d[k] : k \in DOMAIN d}

PotcarCorrection(input_set) ==
    [cls |-> "Potcar",
     valid_potcars |-> Values(input_set.potcar_settings),
     input_set |-> input_set]

SplitSecond(sym) == sym[2]

PotcarCorrection_get_correction_mut(self, entry) ==
    IF "potcar_symbols" \notin DOMAIN entry.parameters
    THEN Raise("ValueError")
    ELSE LET syms == entry.parameters.potcar_symbols
             psp_settings == {SplitSecond(syms[i]) : i \in DOMAIN syms}
         IN IF psp_settings # {} /\ psp_settings \cap self.valid_potcars = {}
            THEN Raise("CompatibilityError")
            ELSE Ok(0)

PotcarCorrection_get_correction(self, entry) ==
    IF "potcar_symbols" \notin DOMAIN entry.parameters
    THEN Raise("ValueError")
    ELSE LET syms == entry.parameters.potcar_symbols
             psp_settings == {SplitSecond(syms[i]) : i \in DOMAIN syms}
         IN IF ~(psp_settings \subseteq self.valid_potcars)
            THEN Raise("CompatibilityError")
            ELSE Ok(0)

PotcarCorrection_str(self) == self.input_set.name \o " Potcar Correction"

(***************************************************************************)
(* UCorrection.                                                            *)
(***************************************************************************)
common_peroxides == {"Li2O2", "Na2O2", "K2O2", "Cs2O2", "Rb2O2", "BeO2",
                     "MgO2", "CaO2", "SrO2", "BaO2"}

common_superoxides == {"LiO2", "NaO2", "KO2", "RbO2", "CsO2"}

ozonides == {"LiO3", "NaO3", "KO3", "NaO5"}

UCorrection_mut(c, input_set, compat_type) ==
    [cls |-> "U",
     input_set |-> input_set,
     u_settings |-> input_set.incar_settings.LDAUU,
     u_corrections |-> IF compat_type = "Advanced"
                       THEN c.Advanced.UCorrections ELSE EmptyDict,
     name |-> c.Name,
     compat_type |-> compat_type]

UCorrection(c, input_set, compat_type) ==
    [cls |-> "U",
     input_set |-> input_set,
     u_settings |-> IF compat_type = "Advanced"
                    THEN input_set.incar_settings.LDAUU ELSE EmptyDict,
     u_corrections |-> IF compat_type = "Advanced"
                       THEN c.Advanced.UCorrections ELSE EmptyDict,
     name |-> c.Name,
     compat_type |-> compat_type]

RECURSIVE SumOver(_, _, _)
SumOver(els, rate, comp) ==
    IF els = {} THEN 0
    ELSE LET el == CHOOSE x \in els : TRUE
         IN rate[el] * comp[el] + SumOver(els \ {el}, rate, comp)

MostElectroneg(els) == CHOOSE el \in els : \A o \in els : X[o] <= X[el]

UCorrection_get_correction_mut(self, entry) ==
    IF Get(entry.parameters, "run_type", "GGA") = "HF"
    THEN Raise("CompatibilityError")
    ELSE LET calc_u == Get(entry.parameters, "hubbards", EmptyDict)
             comp == entry.composition
             most_electroneg == MostElectroneg(DOMAIN comp)
             ucorr == Get(self.u_corrections, most_electroneg, EmptyDict)
             usettings == Get(self.u_settings, most_electroneg, EmptyDict)
             bad == {sym \in DOMAIN comp :
                        Get(calc_u, sym, 0) # Get(usettings, sym, 0)}
         IN IF bad # {}
            THEN Raise("CompatibilityError")
            ELSE Ok(SumOver(DOMAIN comp \cap DOMAIN ucorr, ucorr, comp))

UCorrection_get_correction(self, entry) ==
    IF Get(entry.parameters, "run_type", "GGA") = "HF"
    THEN Raise("CompatibilityError")
    ELSE LET calc_u == Get(entry.parameters, "hubbards", EmptyDict)
             comp == entry.composition
             elements == {el \in DOMAIN comp : comp[el] > 0}
             most_electroneg == MostElectroneg(elements)
             ucorr == Get(self.u_corrections, most_electroneg, EmptyDict)
             usettings == Get(self.u_settings, most_electroneg, EmptyDict)
             bad == {sym \in DOMAIN comp :
                        Get(calc_u, sym, 0) # Get(usettings, sym, 0)}
         IN IF bad # {}
            THEN Raise("CompatibilityError")
            ELSE Ok(SumOver(DOMAIN comp \cap DOMAIN ucorr, ucorr, comp))

UCorrection_str(self) == self.name \o " " \o self.compat_type \o " Correction"

(***************************************************************************)
(* GasCorrection.  entry.structure, when the entry has one, is kept as the *)
(* answer oxide_type(structure, 1.05, return_nbonds=True) gives for it.    *)
(***************************************************************************)
GasCorrection(c, correct_peroxide) ==
    [cls |-> "Gas",
     cpd_energies |-> c.Advanced.CompoundEnergies,
     oxide_correction |-> c.OxideCorrections,
     name |-> c.Name,
     correct_peroxide |-> correct_peroxide]

oxide_type(structure) == <<structure.ox_type, structure.nbonds>>

GasCorrection_get_correction_mut(self, entry) ==
    LET comp == entry.composition
        rform == reduced_formula(comp)
        nO == Amt(comp, "O")
        oxc == self.oxide_correction
    IN IF rform \in DOMAIN self.cpd_energies
       THEN Ok(self.cpd_energies[rform] * num_atoms(comp) - entry.uncorrected_energy)
       ELSE IF self.correct_peroxide
       THEN IF Cardinality(DOMAIN comp) >= 2 /\ "O" \in DOMAIN comp
            THEN IF "oxide_type" \in DOMAIN entry.data
                 THEN LET t == entry.data.oxide_type
                          first == IF t \in DOMAIN oxc THEN oxc[t] * nO ELSE 0
                          second == IF t = "hydroxide" THEN oxc["oxide"] * nO ELSE 0
                      IN Ok(first + second)
                 ELSE IF "structure" \in DOMAIN entry
                 THEN LET ox_type == oxide_type(entry.structure)[1]
                          nbonds == oxide_type(entry.structure)[2]
                      IN IF ox_type \in DOMAIN oxc
                         THEN Ok(oxc[ox_type] * nbonds)
                         ELSE IF ox_type = "hydroxide"
                         THEN Ok(oxc["oxide"] * nO)
                         ELSE Ok(0)
                 ELSE IF rform \in common_peroxides
                 THEN Ok(oxc["peroxide"] * nO)
                 ELSE IF rform \in common_superoxides
                 THEN Ok(oxc["superoxide"] * nO)
                 ELSE IF rform \in ozonides
                 THEN Ok(oxc["ozonide"] * nO)
                 ELSE Ok(oxc["oxide"] * nO)
            ELSE Ok(0)
       ELSE Ok(oxc["oxide"] * num_atoms(comp))

GasCorrection_get_correction(self, entry) ==
    LET comp == entry.composition
        rform == reduced_formula(comp)
        nO == Amt(comp, "O")
        oxc == self.oxide_correction
    IN IF rform \in DOMAIN self.cpd_energies
       THEN Ok(self.cpd_energies[rform] * num_atoms(comp) - entry.uncorrected_energy)
       ELSE IF self.correct_peroxide
       THEN IF Cardinality(DOMAIN comp) >= 2 /\ "O" \in DOMAIN comp
            THEN IF "oxide_type" \in DOMAIN entry.data
                 THEN LET t == entry.data.oxide_type
                          first == IF t \in DOMAIN oxc THEN oxc[t] * nO ELSE 0
                          second == IF t = "hydroxide" THEN oxc["oxide"] * nO ELSE 0
                      IN Ok(first + second)
                 ELSE IF "structure" \in DOMAIN entry
                 THEN LET ox_type == oxide_type(entry.structure)[1]
                          nbonds == oxide_type(entry.structure)[2]
                      IN IF ox_type \in DOMAIN oxc
                         THEN Ok(oxc[ox_type] * nbonds)
                         ELSE IF ox_type = "hydroxide"
                         THEN Ok(oxc["oxide"] * nO)
                         ELSE Ok(0)
                 ELSE IF rform \in common_peroxides
                 THEN Ok(oxc["peroxide"] * nO)
                 ELSE IF rform \in common_superoxides
                 THEN Ok(oxc["superoxide"] * nO)
                 ELSE IF rform \in ozonides
                 THEN Ok(oxc["ozonide"] * nO)
                 ELSE Ok(oxc["oxide"] * nO)
            ELSE Ok(0)
       ELSE Ok(oxc["oxide"] * nO)

GasCorrection_str(self) == self.name \o " Gas Correction"

(***************************************************************************)
(* AqueousCorrection.  0.5 * 2.46 * min(H / 2.0, O) eV is                  *)
(* 123 * min(H, 2 * O) in units of 0.005 eV.                               *)
(***************************************************************************)
AqueousCorrection(c) ==
    [cls |-> "Aqueous",
     cpd_energies |-> c.AqueousCompoundEnergies,
     name |-> c.Name]

AqueousCorrection_get_correction(self, entry) ==
    LET comp == entry.composition
        rform == reduced_formula(comp)
        cpdenergies == self.cpd_energies
        base == IF rform \in DOMAIN cpdenergies
                THEN IF rform \in {"H2", "H2O"}
                     THEN cpdenergies[rform] * num_atoms(comp)
                          - entry.uncorrected_energy - entry.correction
                     ELSE cpdenergies[rform] * num_atoms(comp)
                ELSE 0
        hydration == IF rform # "H2O"
                     THEN 123 * Min(Amt(comp, "H"), 2 * Amt(comp, "O"))
                     ELSE 0
    IN Ok(base + hydration)

AqueousCorrection_str(self) == self.name \o " Aqueous Correction"

(***************************************************************************)
(* Correction: dispatch on the class of the correction object.             *)
(***************************************************************************)
get_correction(c, entry) ==
    CASE c.cls = "Potcar" -> PotcarCorrection_get_correction(c, entry)
      [] c.cls = "Gas" -> GasCorrection_get_correction(c, entry)
      [] c.cls = "U" -> UCorrection_get_correction(c, entry)
      [] c.cls = "Aqueous" -> AqueousCorrection_get_correction(c, entry)

str(c) ==
    CASE c.cls = "Potcar" -> PotcarCorrection_str(c)
      [] c.cls = "Gas" -> GasCorrection_str(c)
      [] c.cls = "U" -> UCorrection_str(c)
      [] c.cls = "Aqueous" -> AqueousCorrection_str(c)

(***************************************************************************)
(* Compatibility.  The log lists the get_correction calls made, in order:  *)
(* the position of the correction in the list and what the call gave.      *)
(***************************************************************************)
DictSet(d, k, v) == [x \in DOMAIN d \cup {k} |-> IF x = k THEN v ELSE d[x]]

LogItem(i, val) == [c |-> i, status |-> val.status, val |-> val.val]

RECURSIVE CorrectionsLoop(_, _, _, _, _)
CorrectionsStep(self, entry, i, dict, log, val) ==
    IF val.status # "ok"
    THEN [status |-> val.status, dict |-> EmptyDict, log |-> Append(log, LogItem(i, val))]
    ELSE CorrectionsLoop(self, entry, i + 1,
             IF val.val # 0 THEN DictSet(dict, str(self[i]), val.val) ELSE dict,
             Append(log, LogItem(i, val)))

CorrectionsLoop(self, entry, i, dict, log) ==
    IF i > Len(self)
    THEN [status |-> "ok", dict |-> dict, log |-> log]
    ELSE CorrectionsStep(self, entry, i, dict, log, get_correction(self[i], entry))

get_corrections_dict(self, entry) == CorrectionsLoop(self, entry, 1, EmptyDict, <<>>)

Rejected(entry, got) ==
    [status |-> "ok", isNone |-> TRUE, entry |-> entry,
     dict |-> EmptyDict, log |-> got.log]

Propagated(entry, got) ==
    [status |-> got.status, isNone |-> FALSE, entry |-> entry,
     dict |-> EmptyDict, log |-> got.log]

Corrected(entry, got) ==
    [status |-> "ok", isNone |-> FALSE,
     entry |-> [entry EXCEPT !.correction = SumValues(got.dict)],
     dict |-> got.dict, log |-> got.log]

TryExcept_mut(entry, got) ==
    IF got.status = "CompatibilityError"
    THEN Rejected([entry EXCEPT !.correction = 0], got)
    ELSE IF got.status # "ok"
    THEN Propagated(entry, got)
    ELSE Corrected(entry, got)

TryExcept_mut2(entry, got) ==
    IF got.status # "ok"
    THEN Rejected(entry, got)
    ELSE Corrected(entry, got)

TryExcept(entry, got) ==
    IF got.status = "CompatibilityError"
    THEN Rejected(entry, got)
    ELSE IF got.status # "ok"
    THEN Propagated(entry, got)
    ELSE Corrected(entry, got)

process_entry(self, entry) == TryExcept(entry, get_corrections_dict(self, entry))

RECURSIVE MapLoop(_, _, _, _, _, _)
MapStep(self, heap, batch, i, mapped, log, r) ==
    IF r.status # "ok"
    THEN [status |-> r.status, heap |-> heap, out |-> <<>>,
          log |-> log \o [k \in DOMAIN r.log |->
                            [pos |-> i, e |-> batch[i], c |-> r.log[k].c,
                             status |-> r.log[k].status, val |-> r.log[k].val]]]
    ELSE MapLoop(self, [heap EXCEPT ![batch[i]] = r.entry], batch, i + 1,
                 Append(mapped, IF r.isNone THEN 0 ELSE batch[i]),
                 log \o [k \in DOMAIN r.log |->
                           [pos |-> i, e |-> batch[i], c |-> r.log[k].c,
                            status |-> r.log[k].status, val |-> r.log[k].val]])

MapLoop(self, heap, batch, i, mapped, log) ==
    IF i > Len(batch)
    THEN [status |-> "ok", heap |-> heap, log |-> log,
          out |-> SelectSeq(mapped, LAMBDA x : x # 0)]
    ELSE MapStep(self, heap, batch, i, mapped, log, process_entry(self, heap[batch[i]]))

process_entries(self, heap, batch) == MapLoop(self, heap, batch, 1, <<>>, <<>>)

(***************************************************************************)
(* The entries and the lists of corrections the specifications draw from.  *)
(***************************************************************************)
Sym(id) == <<"PAW_PBE", id, "06Sep2000">>

Entry(comp, energy, correction, params, data) ==
    [composition |-> comp, uncorrected_energy |-> energy, correction |-> correction,
     parameters |-> params, data |-> data]

WithStructure(entry, structure) ==
    [k \in DOMAIN entry \cup {"structure"} |->
        IF k = "structure" THEN structure ELSE entry[k]]

Compositions(els) ==
    UNION {{comp \in [S -> 0..MaxAmount] : \E el \in S : comp[el] > 0} :
           S \in SUBSET els \ {{}}}

Dicts(keys, vals) == UNION {[S -> vals] : S \in SUBSET keys}

MPCorrections ==
    {PotcarCorrection(MPVaspInputSet), AqueousCorrection(ConfigFile)}

MaterialsProjectCompatibility(compat_type, correct_peroxide) ==
    <<PotcarCorrection(MPVaspInputSet),
      GasCorrection(ConfigFile, correct_peroxide),
      UCorrection(ConfigFile, MPVaspInputSet, compat_type)>>

MaterialsProjectAqueousCompatibility(compat_type, correct_peroxide) ==
    <<PotcarCorrection(MPVaspInputSet),
      GasCorrection(ConfigFile, correct_peroxide),
      UCorrection(ConfigFile, MPVaspInputSet, compat_type),
      AqueousCorrection(ConfigFile)>>

Presets ==
    {MaterialsProjectCompatibility(t, p) : t \in {"GGA", "Advanced"}, p \in BOOLEAN}
    \cup {MaterialsProjectAqueousCompatibility(t, p) :
            t \in {"GGA", "Advanced"}, p \in BOOLEAN}

CorrectionLists == SeqsUpTo(MPCorrections, MaxCorr) \cup Presets

Fe2O3 == [Fe |-> 2, O |-> 3]

SampleEntries ==
    {Entry([H |-> 2], -10, 0,
           [potcar_symbols |-> <<Sym("H")>>, run_type |-> "GGA"], EmptyDict),
     Entry([H |-> 4, O |-> 2], -30, 0,
           [potcar_symbols |-> <<Sym("H"), Sym("O")>>], EmptyDict),
     Entry(Fe2O3, -40, 0,
           [potcar_symbols |-> <<Sym("Fe_pv"), Sym("O")>>,
            hubbards |-> [Fe |-> 53, O |-> 0], run_type |-> "GGA+U"],
           EmptyDict),
     Entry(Fe2O3, -38, 4,
           [potcar_symbols |-> <<Sym("Fe_pv"), Sym("O")>>], EmptyDict),
     Entry(Fe2O3, -39, 5,
           [potcar_symbols |-> <<Sym("Fe"), Sym("O")>>,
            hubbards |-> [Fe |-> 53], run_type |-> "GGA+U"],
           EmptyDict),
     Entry(Fe2O3, -41, 3,
           [hubbards |-> [Fe |-> 53], run_type |-> "GGA+U"], EmptyDict),
     Entry([Li |-> 1, Fe |-> 1, O |-> 2], -25, 6,
           [potcar_symbols |-> <<Sym("Li_sv"), Sym("Fe_pv"), Sym("O")>>,
            hubbards |-> [Fe |-> 53], run_type |-> "HF"],
           EmptyDict),
     Entry([Li |-> 2, O |-> 2], -15, 0,
           [potcar_symbols |-> <<Sym("Li_sv"), Sym("O")>>, run_type |-> "GGA"],
           [oxide_type |-> "peroxide"])}

OtherEntry ==
    Entry(Fe2O3, -42, 0,
          [potcar_symbols |-> <<Sym("Fe_pv"), Sym("O")>>,
           hubbards |-> [Fe |-> 53], run_type |-> "GGA+U"],
          [oxide_type |-> "oxide"])

Corrections(heap) == [e \in DOMAIN heap |-> heap[e].correction]

InitialRet ==
    [op |-> "init", c |-> 0, batch |-> <<>>, status |-> "ok", val |-> 0,
     isNone |-> FALSE, dict |-> EmptyDict, out |-> <<>>, log |-> <<>>,
     pre |-> Corrections(entries)]

Init ==
    /\ corrections \in CorrectionLists
    /\ \E first \in SampleEntries : entries = <<first, OtherEntry>>
    /\ ret = InitialRet

Optional(d, k, vals) == {d} \cup {DictSet(d, k, v) : v \in vals}

\* One UCorrection of either mode, on every entry over Li, Fe and O with any
\* run type and any record of U values.
UParameters ==
    UNION {Optional(p, "hubbards", Dicts({"Fe", "Li"}, {0, 40, 53})) :
           p \in Optional(EmptyDict, "run_type", {"GGA+U", "HF"})}

InitU ==
    /\ corrections \in {<<UCorrection(ConfigFile, MPVaspInputSet, t)>> :
                           t \in {"GGA", "Advanced"}}
    /\ \E comp \in Compositions({"Li", "Fe", "O"}), params \in UParameters :
          entries = <<Entry(comp, -20, 0, params, EmptyDict)>>
    /\ ret = InitialRet

\* One GasCorrection, with or without peroxide correction and with either
\* oxide table, on every entry over Li, H and O.  The oxide_type data and the
\* structure of an entry are classifications its composition allows: "None"
\* without oxygen or for a single element, "hydroxide" only with hydrogen,
\* "peroxide" only with two oxygen atoms.  A structure holds no element in
\* amount 0.
OxideTypes(comp) ==
    IF Amt(comp, "O") = 0 \/ Cardinality({el \in DOMAIN comp : comp[el] > 0}) < 2
    THEN {"None"}
    ELSE {"oxide"}
         \cup (IF Amt(comp, "H") > 0 THEN {"hydroxide"} ELSE {})
         \cup (IF Amt(comp, "O") >= 2 THEN {"peroxide"} ELSE {})

Structures(comp) ==
    IF \E el \in DOMAIN comp : comp[el] = 0 THEN {}
    ELSE {[ox_type |-> t,
           nbonds |-> CASE t = "None" -> 0
                        [] t = "peroxide" -> comp["O"] \div 2
                        [] OTHER -> comp["O"]] : t \in OxideTypes(comp)}

InitGas ==
    /\ corrections \in {<<GasCorrection(c, p)>> :
                           c \in {ConfigFile, ConfigFileHydroxide}, p \in BOOLEAN}
    /\ \E comp \in Compositions({"Li", "H", "O"}) :
          \E data \in Optional(EmptyDict, "oxide_type", OxideTypes(comp)) :
             LET entry == Entry(comp, -12, 0, [run_type |-> "GGA"], data)
             IN \/ entries = <<entry>>
                \/ \E structure \in Structures(comp) :
                      entries = <<WithStructure(entry, structure)>>
    /\ ret = InitialRet

\* Any list of corrections on an Fe2O3 entry with any list of potcar symbols,
\* or none.
PotcarParameters ==
    UNION {Optional(p, "potcar_symbols",
                    SeqsUpTo({Sym("Fe_pv"), Sym("O"), Sym("Fe")}, MaxSymbols)) :
           p \in {[hubbards |-> [Fe |-> 53], run_type |-> t] : t \in {"GGA+U", "HF"}}}

InitPotcar ==
    /\ corrections \in CorrectionLists
    /\ \E params \in PotcarParameters :
          entries = <<Entry(Fe2O3, -40, 2, params, EmptyDict)>>
    /\ ret = InitialRet

(***************************************************************************)
(* The calls a client makes.  ret is what the last call gave: the          *)
(* exception it let through (status), the value, and the entries as they   *)
(* were before the call (pre).                                             *)
(***************************************************************************)
Tag(log, pos, e) ==
    [k \in DOMAIN log |-> [pos |-> pos, e |-> e, c |-> log[k].c,
                           status |-> log[k].status, val |-> log[k].val]]

Returned(op, c, batch, r, pre) ==
    [op |-> op, c |-> c, batch |-> batch, status |-> r.status, val |-> r.val,
     isNone |-> r.isNone, dict |-> r.dict, out |-> r.out, log |-> r.log,
     pre |-> Corrections(pre)]

GetCorrectionReturns(i, e, r) ==
    /\ ret' = Returned("get_correction", i, <<e>>,
                       [status |-> r.status, val |-> r.val, isNone |-> FALSE,
                        dict |-> EmptyDict, out |-> <<>>,
                        log |-> Tag(<<LogItem(i, r)>>, 1, e)],
                       entries)
    /\ UNCHANGED <<corrections, entries>>

GetCorrection ==
    \E i \in DOMAIN corrections, e \in DOMAIN entries :
        GetCorrectionReturns(i, e, get_correction(corrections[i], entries[e]))

GetCorrectionsDictReturns(e, r) ==
    /\ ret' = Returned("get_corrections_dict", 0, <<e>>,
                       [status |-> r.status, val |-> 0, isNone |-> FALSE,
                        dict |-> r.dict, out |-> <<>>, log |-> Tag(r.log, 1, e)],
                       entries)
    /\ UNCHANGED <<corrections, entries>>

GetCorrectionsDict ==
    \E e \in DOMAIN entries :
        GetCorrectionsDictReturns(e, get_corrections_dict(corrections, entries[e]))

ProcessEntryReturns(e, r) ==
    /\ entries' = [entries EXCEPT ![e] = r.entry]
    /\ ret' = Returned("process_entry", 0, <<e>>,
                       [status |-> r.status, val |-> 0, isNone |-> r.isNone,
                        dict |-> r.dict,
                        out |-> IF r.status = "ok" /\ ~r.isNone THEN <<e>> ELSE <<>>,
                        log |-> Tag(r.log, 1, e)],
                       entries)
    /\ UNCHANGED corrections

ProcessEntry ==
    \E e \in DOMAIN entries :
        ProcessEntryReturns(e, process_entry(corrections, entries[e]))

ProcessEntriesReturns(batch, r) ==
    /\ entries' = r.heap
    /\ ret' = Returned("process_entries", 0, batch,
                       [status |-> r.status, val |-> 0, isNone |-> FALSE,
                        dict |-> EmptyDict, out |-> r.out, log |-> r.log],
                       entries)
    /\ UNCHANGED corrections

ProcessEntries ==
    \E batch \in SeqsUpTo(DOMAIN entries, MaxBatch) :
        ProcessEntriesReturns(batch, process_entries(corrections, entries, batch))

Next == GetCorrection \/ GetCorrectionsDict \/ ProcessEntry \/ ProcessEntries

Spec == Init /\ [][Next]_vars

SpecU == InitU /\ [][Next]_vars

SpecGas == InitGas /\ [][Next]_vars

SpecPotcar == InitPotcar /\ [][Next]_vars

(***************************************************************************)
(* Properties of the Compatibility aggregator.                             *)
(***************************************************************************)
RECURSIVE SumSeq(_)
SumSeq(s) == IF s = <<>> THEN 0 ELSE Head(s) + SumSeq(Tail(s))

LogVals(n) == [k \in 1..n |-> ret.log[k].val]

Raised(exc) == {k \in DOMAIN ret.log : ret.log[k].status = exc}

\* C1 (as claimed): process_entry returns None, leaves the correction field as
\* it was and evaluates nothing after the first raising correction when some
\* get_correction raises CompatibilityError; in every other case it returns
\* the entry it was given.
C1_ProcessEntryNoneOrEntry ==
    ret.op = "process_entry" =>
        LET e == ret.batch[1]
        IN /\ \A k \in DOMAIN ret.log : ret.log[k].c = k
           /\ IF Raised("CompatibilityError") # {}
              THEN /\ ret.status = "ok" /\ ret.isNone /\ ret.out = <<>>
                   /\ entries[e].correction = ret.pre[e]
                   /\ Raised("CompatibilityError") = {Len(ret.log)}
              ELSE ret.status = "ok" /\ ~ret.isNone /\ ret.out = <<e>>

\* C1 (amended): as C1, but the entry is returned only when no get_correction
\* raises at all; a ValueError raised by a correction propagates out of
\* process_entry, which then returns nothing and leaves the correction field
\* as it was.
C1_ProcessEntryNoneEntryOrError ==
    ret.op = "process_entry" =>
        LET e == ret.batch[1]
        IN /\ \A k \in DOMAIN ret.log : ret.log[k].c = k
           /\ IF Raised("CompatibilityError") # {}
              THEN /\ ret.status = "ok" /\ ret.isNone /\ ret.out = <<>>
                   /\ entries[e].correction = ret.pre[e]
                   /\ Raised("CompatibilityError") = {Len(ret.log)}
              ELSE IF Raised("ValueError") # {}
              THEN /\ ret.status = "ValueError" /\ ret.out = <<>>
                   /\ entries[e].correction = ret.pre[e]
                   /\ Raised("ValueError") = {Len(ret.log)}
              ELSE /\ ret.status = "ok" /\ ~ret.isNone /\ ret.out = <<e>>
                   /\ Len(ret.log) = Len(corrections)

\* process_entry rejected an entry that carried a nonzero correction, with a
\* correction of the list left unevaluated.
C1_Witness ==
    /\ ret.op = "process_entry"
    /\ ret.isNone
    /\ ret.pre[ret.batch[1]] # 0
    /\ Len(ret.log) < Len(corrections)

\* C2 (as claimed): after process_entry accepts an entry, its correction is
\* the sum of the values every correction returned, it is the sum of the
\* values of get_corrections_dict(entry), and the breakdown holds exactly one
\* item per correction that returned a nonzero value.
C2_CorrectionIsSumOfAll ==
    (ret.op = "process_entry" /\ ret.status = "ok" /\ ~ret.isNone) =>
        LET e == ret.batch[1]
            nonzero == {k \in DOMAIN ret.log : ret.log[k].val # 0}
            again == get_corrections_dict(corrections, entries[e])
        IN /\ entries[e].correction = SumSeq(LogVals(Len(ret.log)))
           /\ entries[e].correction = SumValues(ret.dict)
           /\ again.status = "ok"
           /\ entries[e].correction = SumValues(again.dict)
           /\ Cardinality(DOMAIN ret.dict) = Cardinality(nonzero)

\* C3 (as claimed): process_entries returns, in input order, exactly the
\* entries process_entry does not reject, does not raise for an incompatible
\* entry, and leaves in each returned entry the correction process_entry
\* alone gives it.
C3_BatchIsFilteredMap ==
    ret.op = "process_entries" =>
        LET before(e) == [entries[e] EXCEPT !.correction = ret.pre[e]]
            alone(e) == process_entry(corrections, before(e))
        IN /\ Raised("ValueError") = {} => ret.status = "ok"
           /\ ret.status = "ok" =>
                /\ ret.out = SelectSeq(ret.batch, LAMBDA e : ~alone(e).isNone)
                /\ Len(ret.out) <= Len(ret.batch)
                /\ \A k \in DOMAIN ret.out :
                      entries[ret.out[k]].correction = alone(ret.out[k]).entry.correction

\* C5 (as claimed): for H2 or H2O in the aqueous table and a list that ends
\* with its only AqueousCorrection, that correction subtracts the sum of the
\* values the earlier corrections returned, so that afterwards
\* uncorrected_energy + correction = reference energy * atom count.
C5_AqueousNetOfChain ==
    LET e == ret.batch[1]
        n == Len(corrections)
        comp == entries[e].composition
        rform == reduced_formula(comp)
    IN (/\ ret.op = "process_entry" /\ ret.status = "ok" /\ ~ret.isNone
        /\ n >= 2
        /\ \A k \in 1..n : corrections[k].cls = "Aqueous" <=> k = n
        /\ rform \in {"H2", "H2O"} \cap DOMAIN corrections[n].cpd_energies) =>
           LET reference == corrections[n].cpd_energies[rform] * num_atoms(comp)
               earlier == SumSeq(LogVals(n - 1))
           IN /\ ret.log[n].val =
                    reference - entries[e].uncorrected_energy - earlier
              /\ entries[e].uncorrected_energy + entries[e].correction = reference

\* C7: a PotcarCorrection evaluated on an entry without "potcar_symbols"
\* raises ValueError, which ends the call (get_correction,
\* get_corrections_dict, process_entry or process_entries) with that error:
\* nothing is returned, nothing is evaluated afterwards, and only the entries
\* of the batch processed before the failing one have changed.
C7_MissingPotcarPropagates ==
    \A k \in DOMAIN ret.log :
        LET l == ret.log[k]
        IN (/\ corrections[l.c].cls = "Potcar"
            /\ "potcar_symbols" \notin DOMAIN entries[l.e].parameters) =>
               /\ l.status = "ValueError"
               /\ ret.status = "ValueError"
               /\ k = Len(ret.log)
               /\ ~ret.isNone /\ ret.out = <<>>
               /\ \A e \in DOMAIN entries :
                     (\A i \in 1..(l.pos - 1) : ret.batch[i] # e) =>
                        entries[e].correction = ret.pre[e]

\* process_entries failed with ValueError on its second entry after it had
\* processed, and changed, the first.
C7_Witness ==
    /\ ret.op = "process_entries"
    /\ ret.status = "ValueError"
    /\ ret.log[Len(ret.log)].pos = 2
    /\ ret.batch[1] # ret.batch[2]
    /\ "potcar_symbols" \notin DOMAIN entries[ret.batch[2]].parameters
    /\ entries[ret.batch[1]].correction # ret.pre[ret.batch[1]]

(***************************************************************************)
(* Properties of the single corrections.  TheCorrection and TheEntry are   *)
(* the arguments of the last get_correction call.                          *)
(***************************************************************************)
Called(cls) == ret.op = "get_correction" /\ corrections[ret.c].cls = cls

TheCorrection == corrections[ret.c]

TheEntry == entries[ret.batch[1]]

UsedU(entry, el) == Get(Get(entry.parameters, "hubbards", EmptyDict), el, 0)

RunType(entry) == Get(entry.parameters, "run_type", "GGA")

\* C4 (as claimed): a UCorrection in "GGA" mode raises CompatibilityError for
\* run type "HF" and otherwise returns 0, whatever U values the entry records.
C4_GGAIgnoresUValues ==
    (Called("U") /\ TheCorrection.compat_type = "GGA") =>
        IF RunType(TheEntry) = "HF"
        THEN ret.status = "CompatibilityError"
        ELSE ret.status = "ok" /\ ret.val = 0

\* C4 (amended): a UCorrection in "GGA" mode raises CompatibilityError for
\* run type "HF" and for an entry that records a nonzero U value on an
\* element of its composition, and otherwise returns 0.
C4_GGAExcludesUEntries ==
    (Called("U") /\ TheCorrection.compat_type = "GGA") =>
        IF \/ RunType(TheEntry) = "HF"
           \/ \E el \in DOMAIN TheEntry.composition : UsedU(TheEntry, el) # 0
        THEN ret.status = "CompatibilityError"
        ELSE ret.status = "ok" /\ ret.val = 0

\* A "GGA" mode UCorrection returned 0 for an entry that records a nonzero U
\* value, on an element that is not in its composition.
C4_Witness ==
    /\ Called("U") /\ TheCorrection.compat_type = "GGA"
    /\ ret.status = "ok" /\ ret.val = 0
    /\ RunType(TheEntry) = "GGA+U"
    /\ UsedU(TheEntry, "Fe") = 53
    /\ "Fe" \notin DOMAIN TheEntry.composition

\* C8: a UCorrection in "Advanced" mode, on an entry whose run type is not
\* "HF", raises CompatibilityError exactly when some element of the
\* composition has a used U value other than the one expected under the most
\* electronegative element with a positive amount, and otherwise returns the
\* sum of rate * count over the elements of that element's correction table;
\* Fe with U = 5.3 under oxygen gives rate(Fe) * count(Fe).
C8_AdvancedUCorrection ==
    (Called("U") /\ TheCorrection.compat_type = "Advanced"
                 /\ RunType(TheEntry) # "HF") =>
        LET comp == TheEntry.composition
            present == {el \in DOMAIN comp : comp[el] > 0}
            M == CHOOSE el \in present : \A o \in present : X[o] <= X[el]
            expected == Get(MPVaspInputSet.incar_settings.LDAUU, M, EmptyDict)
            rates == Get(ConfigFile.Advanced.UCorrections, M, EmptyDict)
        IN /\ ret.status \in {"ok", "CompatibilityError"}
           /\ ret.status = "CompatibilityError" <=>
                 \E el \in DOMAIN comp : UsedU(TheEntry, el) # Get(expected, el, 0)
           /\ ret.status = "ok" =>
                 ret.val = SumOver(DOMAIN comp \cap DOMAIN rates, rates, comp)
           /\ (/\ M = "O" /\ DOMAIN comp = {"Fe", "O"}
               /\ Get(TheEntry.parameters, "hubbards", EmptyDict) = [Fe |-> 53]) =>
                 ret.status = "ok" /\ ret.val = -5 * comp["Fe"]

\* An "Advanced" UCorrection returned rate(Fe) * 2 for an Fe2-O entry that
\* records U = 5.3 on Fe.
C8_Witness ==
    /\ Called("U") /\ TheCorrection.compat_type = "Advanced"
    /\ DOMAIN TheEntry.composition = {"Fe", "O"}
    /\ TheEntry.composition["Fe"] = 2 /\ TheEntry.composition["O"] > 0
    /\ UsedU(TheEntry, "Fe") = 53
    /\ ret.status = "ok" /\ ret.val = -10

\* C6: PotcarCorrection on an entry that carries potcar_symbols returns 0
\* when every identifier is one the input set expects and raises
\* CompatibilityError otherwise, and process_entry of a list that holds the
\* correction then returns None.
C6_PotcarGate ==
    LET entry == entries[1]
        syms == entry.parameters.potcar_symbols
        ids == {syms[i][2] : i \in DOMAIN syms}
        expected == {MPVaspInputSet.potcar_settings[el] : el \in Elements}
    IN "potcar_symbols" \in DOMAIN entry.parameters =>
          /\ Called("Potcar") =>
                IF ids \subseteq expected
                THEN ret.status = "ok" /\ ret.val = 0
                ELSE ret.status = "CompatibilityError"
          /\ (/\ ret.op = "process_entry"
              /\ \E k \in DOMAIN corrections : corrections[k].cls = "Potcar"
              /\ ~(ids \subseteq expected)) =>
                ret.status = "ok" /\ ret.isNone /\ entry.correction = ret.pre[1]

\* process_entry returned None for an entry with one expected and one
\* unexpected identifier, under a list whose PotcarCorrection is not first.
C6_Witness ==
    /\ ret.op = "process_entry" /\ ret.isNone
    /\ Len(corrections) >= 2
    /\ corrections[1].cls # "Potcar"
    /\ ret.log[Len(ret.log)].status = "CompatibilityError"
    /\ corrections[ret.log[Len(ret.log)].c].cls = "Potcar"
    /\ entries[1].parameters.potcar_symbols = <<Sym("Fe_pv"), Sym("Fe")>>

\* C9 (as claimed): with peroxide correction enabled, a reduced formula that
\* is not in the compound table, oxygen and another element present and an
\* oxide_type in the entry's data, GasCorrection returns the rate of that
\* oxide type times the oxygen count, and for "hydroxide" the oxide rate
\* times the oxygen count, whatever the oxide table holds.
C9_PrecomputedOxideType ==
    LET comp == TheEntry.composition
        table == TheCorrection.oxide_correction
    IN (/\ Called("Gas") /\ TheCorrection.correct_peroxide
        /\ reduced_formula(comp) \notin DOMAIN TheCorrection.cpd_energies
        /\ Amt(comp, "O") > 0
        /\ \E el \in DOMAIN comp \ {"O"} : comp[el] > 0
        /\ "oxide_type" \in DOMAIN TheEntry.data) =>
           LET t == TheEntry.data.oxide_type
           IN /\ ret.status = "ok"
              /\ ret.val = IF t = "hydroxide" THEN table["oxide"] * comp["O"]
                           ELSE IF t \in DOMAIN table THEN table[t] * comp["O"]
                           ELSE 0

\* C10: GasCorrection returns 0 for every entry whose reduced formula is not
\* in the compound table and whose composition has no oxygen, with peroxide
\* correction enabled or disabled.
C10_NoOxygenNoCorrection ==
    (/\ Called("Gas")
     /\ reduced_formula(TheEntry.composition) \notin DOMAIN TheCorrection.cpd_energies
     /\ Amt(TheEntry.composition, "O") = 0) =>
        ret.status = "ok" /\ ret.val = 0

\* A GasCorrection with peroxide correction disabled returned 0 for LiH, which
\* carries oxide_type data and a structure.
C10_Witness ==
    /\ Called("Gas") /\ ~TheCorrection.correct_peroxide
    /\ TheEntry.composition = [Li |-> 1, H |-> 1]
    /\ "oxide_type" \in DOMAIN TheEntry.data
    /\ "structure" \in DOMAIN TheEntry
    /\ ret.status = "ok" /\ ret.val = 0

(***************************************************************************)
(* Repeated processing of one entry.                                       *)
(***************************************************************************)

\* C11 (as claimed): process_entry is idempotent on the correction field:
\* when process_entry has returned an entry and is called again on that same
\* entry, with the same list of corrections, and returns it again, the
\* correction field after the second call equals the one the first call set.
C11_ProcessEntryIdempotent ==
    [][(/\ ret.op = "process_entry" /\ ret.status = "ok" /\ ~ret.isNone
        /\ ret'.op = "process_entry" /\ ret'.status = "ok" /\ ~ret'.isNone
        /\ ret'.batch = ret.batch) =>
           entries'[ret.batch[1]].correction = entries[ret.batch[1]].correction]_vars

=============================================================================
